---------------------------- MODULE Spec2Model ----------------------------
(***************************************************************************)
(* Model of src/bot.py: the numerology calculator (digit_sum,              *)
(* reduce_number, life_path_for_date) and the scheduler/dispatcher built   *)
(* around it (on_ready, the 08:00 cron job, post_for_today, post_for_date, *)
(* cmd_today, cmd_calc).                                                   *)
(*                                                                         *)
(* Strings are sequences of one-character strings, so that str(), int(),   *)
(* the f-string formats and strptime are modelled by what they do.         *)
(***************************************************************************)
EXTENDS Integers, Sequences, FiniteSets, TLC

VARIABLES
    proc,        \* the process: its environment and how far its start-up got
    call,        \* the calculator call being observed (SpecReducer)
    today,       \* datetime.now(PACIFIC_TZ).date(): the wall-clock date
    fired,       \* TRUE once the 08:00 occurrence of `today` has elapsed
    jobs,        \* the number of jobs in the scheduler's job store
    armed,       \* the date scheduler.start() took effect on, NoDate before it
    cached,      \* bot.get_channel(TARGET_CHANNEL_ID) resolves
    tasks        \* the units of work started so far, in order of creation

vars == <<proc, call, today, fired, jobs, armed, cached, tasks>>

botVars == <<proc, today, fired, jobs, armed, cached, tasks>>

-----------------------------------------------------------------------------
(* Bounds of the model *)

\* reduce_number is applied to every integer in -MaxN..MaxN
MaxN == 7000

\* each window of years is YearSpan+1 years long
YearSpan == 40

\* first years of the windows of calendar years the calculator is applied to
YearBases == {1, 1990, 2020, 6980}

Years == UNION {b..(b + YearSpan) : b \in YearBases}

-----------------------------------------------------------------------------
(* Characters, str() and int() *)

DigitChars == <<"0", "1", "2", "3", "4", "5", "6", "7", "8", "9">>

IsDigit(c) == \E i \in 1..10 : DigitChars[i] = c

\* int(c) for a one-digit string c
DigitVal(c) == (CHOOSE i \in 1..10 : DigitChars[i] = c) - 1

Abs(n) == IF n < 0 THEN -n ELSE n

\* str(n) for n >= 0: the decimal digits, most significant first
RECURSIVE Str(_)
Str(n) == IF n < 10 THEN <<DigitChars[n + 1]>>
          ELSE Append(Str(n \div 10), DigitChars[(n % 10) + 1])

\* int(s) for a string of decimal digits: leading zeros are dropped
RECURSIVE ParseInt(_)
ParseInt(s) == IF s = <<>> THEN 0
               ELSE 10 * ParseInt(SubSeq(s, 1, Len(s) - 1)) + DigitVal(s[Len(s)])

\* f"{n:0wd}": str(n) padded on the left with zeros to at least w characters
RECURSIVE ZeroPad(_, _)
ZeroPad(s, w) == IF Len(s) >= w THEN s ELSE ZeroPad(<<"0">> \o s, w)

Fmt(n, w) == ZeroPad(Str(n), w)

RECURSIVE SumChars(_)
SumChars(s) == IF s = <<>> THEN 0 ELSE DigitVal(Head(s)) + SumChars(Tail(s))

-----------------------------------------------------------------------------
(* The calculator *)

MASTER_SET == {11, 22, 33}

digit_sum(n) == SumChars(Str(Abs(n)))

\* a reduction that never looks at MASTER_SET inside the loop
RECURSIVE reduce_loop_plain(_)
reduce_loop_plain(s) == IF s > 9 THEN reduce_loop_plain(digit_sum(s)) ELSE s

\* a loop that goes on while s > 10
RECURSIVE reduce_loop_above_ten(_)
reduce_loop_above_ten(s) ==
    IF s > 10
    THEN LET s2 == digit_sum(s)
         IN  IF s2 \in MASTER_SET THEN s2 ELSE reduce_loop_above_ten(s2)
    ELSE s

\* the while loop of reduce_number, entered with s
RECURSIVE reduce_loop(_)
reduce_loop(s) ==
    IF s > 9
    THEN LET s2 == digit_sum(s)
         IN  IF s2 \in MASTER_SET THEN s2 ELSE reduce_loop(s2)
    ELSE s

\* reduce_number without the test that follows the first digit sum
reduce_number_unchecked(n) == reduce_loop(digit_sum(n))

\* reduce_number whose loop stops one too early (s > 10 for s > 9)
RECURSIVE reduce_loop_late(_)
reduce_loop_late(s) ==
    IF s > 10
    THEN LET s2 == digit_sum(s)
         IN  IF s2 \in MASTER_SET THEN s2 ELSE reduce_loop_late(s2)
    ELSE s

reduce_number_late(n) ==
    LET s == digit_sum(n)
    IN  IF s \in MASTER_SET THEN s ELSE reduce_loop_late(s)

reduce_number(n) ==
    LET s == digit_sum(n)
    IN  IF s \in MASTER_SET THEN s ELSE reduce_loop(s)

\* digits_total passed through the master-aware reduction
digits_total_reduced(d) ==
    reduce_number(ParseInt(Fmt(d.year, 4) \o Fmt(d.month, 2) \o Fmt(d.day, 2)))

digits_total(d) ==
    digit_sum(ParseInt(Fmt(d.year, 4) \o Fmt(d.month, 2) \o Fmt(d.day, 2)))

\* life_path_for_date with the month added into the secondary number
life_path_day_month(d) ==
    [ life_path_primary |-> reduce_number(d.year + d.month + d.day),
      digits_total      |-> digits_total(d),
      secondary_energy  |-> reduce_number(d.month + d.day) ]

\* life_path_for_date with primary and secondary exchanged
life_path_swapped(d) ==
    [ life_path_primary |-> reduce_number(d.day),
      digits_total      |-> digits_total(d),
      secondary_energy  |-> reduce_number(d.year + d.month + d.day) ]

life_path_for_date(d) ==
    [ life_path_primary |-> reduce_number(d.year + d.month + d.day),
      digits_total      |-> digits_total(d),
      secondary_energy  |-> reduce_number(d.day) ]

-----------------------------------------------------------------------------
(* datetime.date *)

IsLeap(y) == (y % 4 = 0) /\ ((y % 100 # 0) \/ (y % 400 = 0))

DaysInMonth(y, m) ==
    IF m = 2 THEN (IF IsLeap(y) THEN 29 ELSE 28)
    ELSE IF m \in {4, 6, 9, 11} THEN 30 ELSE 31

\* date(y, m, d) raises ValueError unless this holds
IsValidDate(y, m, d) ==
    /\ y \in 1..9999
    /\ m \in 1..12
    /\ d \in 1..DaysInMonth(y, m)

MkDate(y, m, d) == [year |-> y, month |-> m, day |-> d]

Dates == {dt \in [year : Years, month : 1..12, day : 1..31] :
              IsValidDate(dt.year, dt.month, dt.day)}


\* the date after dt (datetime's proleptic Gregorian calendar)
NextDay(dt) ==
    IF dt.day < DaysInMonth(dt.year, dt.month)
    THEN MkDate(dt.year, dt.month, dt.day + 1)
    ELSE IF dt.month < 12 THEN MkDate(dt.year, dt.month + 1, 1)
    ELSE MkDate(dt.year + 1, 1, 1)

RECURSIVE AddDays(_, _)
AddDays(dt, k) == IF k = 0 THEN dt ELSE AddDays(NextDay(dt), k - 1)

-----------------------------------------------------------------------------
(* datetime.strptime(mmddyyyy, "%m/%d/%Y").date() *)

\* the pieces of s between the occurrences of the character sep
RECURSIVE Split(_, _)
Split(s, sep) ==
    IF \A i \in 1..Len(s) : s[i] # sep THEN <<s>>
    ELSE LET k == CHOOSE i \in 1..Len(s) :
                      s[i] = sep /\ \A j \in 1..(i - 1) : s[j] # sep
         IN  <<SubSeq(s, 1, k - 1)>> \o Split(SubSeq(s, k + 1, Len(s)), sep)

AllDigits(s) == \A i \in 1..Len(s) : IsDigit(s[i])

\* %m : 1[0-2]|0[1-9]|[1-9]
MatchesMonth(s) ==
    /\ Len(s) \in {1, 2}
    /\ AllDigits(s)
    /\ ParseInt(s) \in 1..12

\* %d : 3[01]|[12]\d|0[1-9]|[1-9]| [1-9]
MatchesDay(s) ==
    \/ /\ Len(s) \in {1, 2}
       /\ AllDigits(s)
       /\ ParseInt(s) \in 1..31
    \/ /\ Len(s) = 2
       /\ s[1] = " "
       /\ IsDigit(s[2])
       /\ DigitVal(s[2]) \in 1..9

\* %Y : \d\d\d\d
MatchesYear(s) == Len(s) = 4 /\ AllDigits(s)

DayOf(s) == IF s[1] = " " THEN DigitVal(s[2]) ELSE ParseInt(s)

\* strptime returns a date (TRUE) or raises ValueError (FALSE)
Parses(s) ==
    LET p == Split(s, "/")
    IN  /\ Len(p) = 3
        /\ MatchesMonth(p[1])
        /\ MatchesDay(p[2])
        /\ MatchesYear(p[3])
        /\ IsValidDate(ParseInt(p[3]), ParseInt(p[1]), DayOf(p[2]))

\* the date strptime returns for a string that parses
Parsed(s) ==
    LET p == Split(s, "/")
    IN  MkDate(ParseInt(p[3]), ParseInt(p[1]), DayOf(p[2]))

-----------------------------------------------------------------------------
(* Formatting: build_url_for_date and the message of post_for_date *)

MonthNames == <<"January", "February", "March", "April", "May", "June", "July",
                "August", "September", "October", "November", "December">>

\* d.strftime('%m/%d/%Y')
build_url_for_date(d) ==
    Fmt(d.month, 2) \o <<"/">> \o Fmt(d.day, 2) \o <<"/">> \o Fmt(d.year, 4)

\* the four lines of msg: title, URL, "Life Path: p / t", "Secondary energy: s"
Message(d) ==
    LET calc == life_path_for_date(d)
    IN  [ title     |-> <<MonthNames[d.month]>> \o Fmt(d.day, 2) \o Fmt(d.year, 4),
          url       |-> build_url_for_date(d),
          life_path |-> <<calc.life_path_primary, calc.digits_total>>,
          secondary |-> calc.secondary_energy ]

-----------------------------------------------------------------------------
(* The dispatcher's state *)

\* on_ready is delivered at most MaxReady times
MaxReady == 2

\* at most MaxTasks units of work are started
MaxTasks == 2

\* the wall clock advances over at most MaxDays midnights
MaxDays == 1

StartDate == MkDate(2025, 8, 20)

LastDate == AddDays(StartDate, MaxDays)

NoDate == MkDate(0, 0, 0)

NoMsg == [title |-> <<>>, url |-> <<>>, life_path |-> <<>>, secondary |-> 0]

NoCall == [fn |-> "none", arg |-> 0, ret |-> 0]

\* scheduler.running
running == armed # NoDate

\* "target" is the channel TARGET_CHANNEL_ID names; "other" is any other one
Channels == {"target", "other"}

\* the strings handed to the calc command
CalcInputs ==
    { <<"8", "/", "2", "1", "/", "2", "0", "2", "5">>,
      <<"0", "8", "/", " ", "1", "/", "2", "0", "2", "5">>,
      <<"1", "3", "/", "4", "0", "/", "2", "0", "2", "5">>,
      <<"2", "0", "2", "5", "-", "0", "8", "-", "2", "1">>,
      <<"0", "2", "/", "2", "9", "/", "2", "0", "2", "5">> }

\* a unit of work: a run of the cron job's post_for_today, of cmd_today or of
\* cmd_calc.  reduced counts its calls of life_path_for_date, delivered its
\* completed channel.send(msg), and reply is what ctx.send told the caller.
NewTask(kind, pc, ctx, arg, date, occ) ==
    [ kind |-> kind, pc |-> pc, ctx |-> ctx, arg |-> arg, date |-> date,
      occ |-> occ, to |-> "none", msg |-> NoMsg,
      reduced |-> 0, delivered |-> 0, reply |-> "none" ]

TaskIds == 1..Len(tasks)

-----------------------------------------------------------------------------
(* The dispatcher's operations *)

\* os.getenv gives None for a variable that is not set
Unset == <<"N", "o", "n", "e">>

\* the values of TARGET_CHANNEL_ID the process is started with
ChannelIdSettings ==
    { Unset, <<>>, <<"0">>, <<"0", "0">>, <<"a", "b", "c">>, <<"4", "2">> }

\* the values of DISCORD_TOKEN the process is started with
TokenSettings == { Unset, <<>>, <<"t", "o", "k">> }

\* int(s) returns (TRUE) or raises ValueError (FALSE): a sign, then digits
IntAccepts(s) ==
    LET body == IF s # <<>> /\ s[1] \in {"+", "-"} THEN Tail(s) ELSE s
    IN  body # <<>> /\ AllDigits(body)

\* int(s) for a string int accepts
IntOf(s) ==
    IF s[1] = "-" THEN 0 - ParseInt(Tail(s))
    ELSE IF s[1] = "+" THEN ParseInt(Tail(s)) ELSE ParseInt(s)

\* os.getenv("TARGET_CHANNEL_ID", "0")
ChannelIdText == IF proc.channel_id = Unset THEN <<"0">> ELSE proc.channel_id

\* bot.run has been called
Started == proc.phase = "run"

\* the process is launched: nothing of bot.py has run yet
Init ==
    /\ proc \in [token : TokenSettings, channel_id : ChannelIdSettings,
                  phase : {"boot"}]
    /\ call = NoCall
    /\ today = StartDate
    /\ fired = FALSE
    /\ jobs = 0
    /\ armed = NoDate
    /\ cached = FALSE
    /\ tasks = <<>>

\* a start-up that tests the token alone
main_token_only ==
    /\ proc.phase = "boot"
    /\ proc' = [proc EXCEPT !.phase =
                    IF ~IntAccepts(ChannelIdText) THEN "crash"
                    ELSE IF proc.token \in {Unset, <<>>} THEN "exit"
                    ELSE "run"]
    /\ UNCHANGED <<call, today, fired, jobs, armed, cached, tasks>>

\* the module level and the __main__ block: int() of line 15 raises on a text
\* that is no number, SystemExit on a missing token or a channel id of 0,
\* bot.run otherwise
main ==
    /\ proc.phase = "boot"
    /\ proc' = [proc EXCEPT !.phase =
                    IF ~IntAccepts(ChannelIdText) THEN "crash"
                    ELSE IF proc.token \in {Unset, <<>>} \/ IntOf(ChannelIdText) = 0
                         THEN "exit"
                    ELSE "run"]
    /\ UNCHANGED <<call, today, fired, jobs, armed, cached, tasks>>

\* on_ready: add_job appends a job (no id is given, so none is replaced), then
\* scheduler.start() starts the scheduler or raises SchedulerAlreadyRunningError
on_ready ==
    /\ Started
    /\ jobs < MaxReady
    /\ jobs' = jobs + 1
    /\ armed' = IF running THEN armed ELSE today
    /\ UNCHANGED <<proc, call, today, fired, cached, tasks>>

\* the job's lambda: asyncio.create_task(post_for_today())
SpawnFor(j) == NewTask("sched", "start", "none", <<>>, NoDate, today)

\* 08:00 of `today` elapses: the running scheduler runs every job of its store
CronFire ==
    /\ Started
    /\ ~fired
    /\ fired' = TRUE
    /\ IF running
       THEN /\ Len(tasks) + jobs <= MaxTasks
            /\ tasks' = tasks \o [j \in 1..jobs |-> SpawnFor(j)]
       ELSE tasks' = tasks
    /\ UNCHANGED <<proc, call, today, jobs, armed, cached>>

\* midnight in PACIFIC_TZ; the tasks created at 08:00 have started long before
Midnight ==
    /\ Started
    /\ fired
    /\ \A t \in TaskIds : tasks[t].pc # "start"
    /\ today # LastDate
    /\ today' = NextDay(today)
    /\ fired' = FALSE
    /\ UNCHANGED <<proc, call, jobs, armed, cached, tasks>>

\* the client's channel cache gains or loses the target channel
CacheChange ==
    /\ Started
    /\ cached' = ~cached
    /\ UNCHANGED <<proc, call, today, fired, jobs, armed, tasks>>

\* the dates the wall clock shows during a run
ClockDates == {AddDays(StartDate, k) : k \in 0..MaxDays}

\* the dates a message can be posted for: those of the clock and of !calc
PostedDates == ClockDates \cup {Parsed(s) : s \in {x \in CalcInputs : Parses(x)}}

\* the message of each of them, worked out once
MessageOf == [d \in PostedDates |-> Message(d)]

\* post_for_date up to its await: the message is computed and handed to send
post_for_date(task, d, channel) ==
    [task EXCEPT !.pc = "send", !.date = d, !.to = channel,
                 !.msg = MessageOf[d], !.reduced = @ + 1]

\* where the caller of post_for_today goes on when it returns without sending
AfterPost(t) == IF tasks[t].kind = "today" THEN "confirm" ELSE "done"

\* post_for_today that posts for the date its job was registered on
post_for_today_cached(t) ==
    /\ \/ tasks[t].kind = "sched" /\ tasks[t].pc = "start"
       \/ tasks[t].kind = "today" /\ tasks[t].pc = "typing"
    /\ tasks' = [tasks EXCEPT ![t] =
                    LET d == IF tasks[t].kind = "sched" THEN armed ELSE today
                    IN  IF cached
                        THEN post_for_date(tasks[t], d, "target")
                        ELSE [tasks[t] EXCEPT !.pc = AfterPost(t), !.date = d]]
    /\ UNCHANGED <<proc, call, today, fired, jobs, armed, cached>>

\* post_for_today that unschedules the job when the channel is not found
post_for_today_disarm(t) ==
    /\ \/ tasks[t].kind = "sched" /\ tasks[t].pc = "start"
       \/ tasks[t].kind = "today" /\ tasks[t].pc = "typing"
    /\ tasks' = [tasks EXCEPT ![t] =
                    IF cached
                    THEN post_for_date(tasks[t], today, "target")
                    ELSE [tasks[t] EXCEPT !.pc = AfterPost(t), !.date = today]]
    /\ jobs' = IF cached THEN jobs ELSE 0
    /\ UNCHANGED <<proc, call, today, fired, armed, cached>>

\* post_for_today, run by the cron job's task or by cmd_today after its typing
post_for_today(t) ==
    /\ \/ tasks[t].kind = "sched" /\ tasks[t].pc = "start"
       \/ tasks[t].kind = "today" /\ tasks[t].pc = "typing"
    /\ tasks' = [tasks EXCEPT ![t] =
                    IF cached
                    THEN post_for_date(tasks[t], today, "target")
                    ELSE [tasks[t] EXCEPT !.pc = AfterPost(t), !.date = today]]
    /\ UNCHANGED <<proc, call, today, fired, jobs, armed, cached>>

\* cmd_today up to its first await (ctx.trigger_typing)
cmd_today ==
    /\ Started
    /\ Len(tasks) < MaxTasks
    /\ tasks' = Append(tasks, NewTask("today", "typing", "caller", <<>>, NoDate, NoDate))
    /\ UNCHANGED <<proc, call, today, fired, jobs, armed, cached>>

\* cmd_calc that posts to the channel TARGET_CHANNEL_ID names
cmd_calc_to_target(s, ctx) ==
    /\ Started
    /\ Len(tasks) < MaxTasks
    /\ tasks' = Append(tasks,
           IF Parses(s)
           THEN post_for_date(NewTask("calc", "typing", ctx, s, NoDate, NoDate),
                              Parsed(s), "target")
           ELSE [NewTask("calc", "done", ctx, s, NoDate, NoDate)
                     EXCEPT !.reply = "usage"])
    /\ UNCHANGED <<proc, call, today, fired, jobs, armed, cached>>

\* cmd_calc up to the await of its send: the usage reply, or the typing
\* indicator and post_for_date(d, ctx.channel)
cmd_calc(s, ctx) ==
    /\ Started
    /\ Len(tasks) < MaxTasks
    /\ tasks' = Append(tasks,
           IF Parses(s)
           THEN post_for_date(NewTask("calc", "typing", ctx, s, NoDate, NoDate),
                              Parsed(s), ctx)
           ELSE [NewTask("calc", "done", ctx, s, NoDate, NoDate)
                     EXCEPT !.reply = "usage"])
    /\ UNCHANGED <<proc, call, today, fired, jobs, armed, cached>>

\* sends that complete one at a time, in the order the tasks were created
SendDone_in_turn(t) ==
    /\ tasks[t].pc = "send"
    /\ \A u \in 1..(t - 1) : tasks[u].pc # "send"
    /\ tasks' = [tasks EXCEPT ![t] =
                    [@ EXCEPT !.delivered = @ + 1, !.pc = AfterPost(t)]]
    /\ UNCHANGED <<proc, call, today, fired, jobs, armed, cached>>

\* channel.send(msg) completes: the message is in the channel
SendDone(t) ==
    /\ tasks[t].pc = "send"
    /\ tasks' = [tasks EXCEPT ![t] =
                    [@ EXCEPT !.delivered = @ + 1, !.pc = AfterPost(t)]]
    /\ UNCHANGED <<proc, call, today, fired, jobs, armed, cached>>

\* cmd_today after post_for_today returned: ctx.send("Posted today's ...")
cmd_today_confirm(t) ==
    /\ tasks[t].pc = "confirm"
    /\ tasks' = [tasks EXCEPT ![t] = [@ EXCEPT !.reply = "posted", !.pc = "done"]]
    /\ UNCHANGED <<proc, call, today, fired, jobs, armed, cached>>

Next ==
    \/ main
    \/ on_ready
    \/ CronFire
    \/ Midnight
    \/ CacheChange
    \/ cmd_today
    \/ \E s \in CalcInputs, ctx \in Channels : cmd_calc(s, ctx)
    \/ \E t \in TaskIds : post_for_today(t)
    \/ \E t \in TaskIds : SendDone(t)
    \/ \E t \in TaskIds : cmd_today_confirm(t)

Spec == Init /\ [][Next]_vars

-----------------------------------------------------------------------------
(* The calculator on its own: every input of the bounded sets is applied *)

\* the calculator is called on its own; the settings of the process are fixed
InitReducer ==
    /\ Init
    /\ proc.token = <<"t", "o", "k">>
    /\ proc.channel_id = <<"4", "2">>

CallReduceNumber ==
    /\ call = NoCall
    /\ \E n \in (-MaxN)..MaxN :
           call' = [fn |-> "reduce_number", arg |-> n, ret |-> reduce_number(n)]
    /\ UNCHANGED botVars

CallLifePath ==
    /\ call = NoCall
    /\ \E d \in Dates :
           call' = [fn |-> "life_path_for_date", arg |-> d,
                    ret |-> life_path_for_date(d)]
    /\ UNCHANGED botVars

Return ==
    /\ call # NoCall
    /\ call' = NoCall
    /\ UNCHANGED botVars

NextReducer ==
    \/ CallReduceNumber
    \/ CallLifePath
    \/ Return

SpecReducer == InitReducer /\ [][NextReducer]_vars

-----------------------------------------------------------------------------
(* reduce_number run statement by statement: call holds its frame, with the
   local s and the line the run is at *)

InFrame == call.fn = "reduce_number_run"

At(line) == InFrame /\ call.pc = line

\* line 33: s = digit_sum(n)
EnterReduceNumber ==
    /\ call = NoCall
    /\ \E n \in (-MaxN)..MaxN :
           call' = [fn |-> "reduce_number_run", arg |-> n, pc |-> "L34",
                    s |-> digit_sum(n)]
    /\ UNCHANGED botVars

\* lines 34-35: if s in MASTER_SET: return s
FirstTest ==
    /\ At("L34")
    /\ call' = [call EXCEPT !.pc = IF call.s \in MASTER_SET THEN "returned" ELSE "L36"]
    /\ UNCHANGED botVars

\* line 36: while s > 9; line 40: return s
WhileTest ==
    /\ At("L36")
    /\ call' = [call EXCEPT !.pc = IF call.s > 9 THEN "L37" ELSE "returned"]
    /\ UNCHANGED botVars

\* a loop body that sums the digits of n again
LoopBody_of_input ==
    /\ At("L37")
    /\ LET s2 == digit_sum(call.arg)
       IN  call' = [call EXCEPT !.s = s2,
                       !.pc = IF s2 \in MASTER_SET THEN "returned" ELSE "L36"]
    /\ UNCHANGED botVars

\* lines 37-39: s = digit_sum(s); if s in MASTER_SET: return s
LoopBody ==
    /\ At("L37")
    /\ LET s2 == digit_sum(call.s)
       IN  call' = [call EXCEPT !.s = s2,
                       !.pc = IF s2 \in MASTER_SET THEN "returned" ELSE "L36"]
    /\ UNCHANGED botVars

\* the caller has the value
LeaveReduceNumber ==
    /\ At("returned")
    /\ call' = NoCall
    /\ UNCHANGED botVars

\* the statements of a run under way
StepLoop ==
    \/ FirstTest
    \/ WhileTest
    \/ LoopBody

NextLoop ==
    \/ EnterReduceNumber
    \/ FirstTest
    \/ WhileTest
    \/ LoopBody
    \/ LeaveReduceNumber

\* the interpreter goes on with a run it has begun
SpecLoop == InitReducer /\ [][NextLoop]_vars /\ WF_vars(StepLoop)

-----------------------------------------------------------------------------
(* Vocabulary of the properties *)

IsSched(t) == tasks[t].kind = "sched"

\* post_for_today ran in task t and found no channel
Abandoned(t) ==
    /\ tasks[t].kind \in {"sched", "today"}
    /\ tasks[t].date # NoDate
    /\ tasks[t].to = "none"

DateBefore(a, b) ==
    \/ a.year < b.year
    \/ a.year = b.year /\ a.month < b.month
    \/ a.year = b.year /\ a.month = b.month /\ a.day < b.day

\* the k-th digit-sum pass over n
RECURSIVE Pass(_, _)
Pass(n, k) == IF k = 1 THEN digit_sum(n) ELSE digit_sum(Pass(n, k - 1))

\* passes looked at by the property of the later passes
MaxPasses == 4

\* the eight digits of YYYYMMDD, read off the numbers
EightDigits(d) ==
    << d.year \div 1000, (d.year \div 100) % 10, (d.year \div 10) % 10, d.year % 10,
       d.month \div 10, d.month % 10, d.day \div 10, d.day % 10 >>

RECURSIVE SumSeq(_)
SumSeq(q) == IF q = <<>> THEN 0 ELSE Head(q) + SumSeq(Tail(q))

\* s is month/day/year in digits (one or two, one or two, four) and names a
\* day of the calendar
DenotesDate(s) ==
    \E i, j \in 1..Len(s) :
        /\ i < j
        /\ s[i] = "/" /\ s[j] = "/"
        /\ \A k \in 1..Len(s) : k \notin {i, j} => IsDigit(s[k])
        /\ i - 1 \in {1, 2}
        /\ j - i - 1 \in {1, 2}
        /\ Len(s) - j = 4
        /\ LET mo == ParseInt(SubSeq(s, 1, i - 1))
               dy == ParseInt(SubSeq(s, i + 1, j - 1))
               yr == ParseInt(SubSeq(s, j + 1, Len(s)))
           IN  /\ yr >= 1
               /\ mo \in 1..12
               /\ dy >= 1
               /\ dy <= (IF mo = 2
                         THEN (IF yr % 4 = 0 /\ (yr % 100 # 0 \/ yr % 400 = 0)
                               THEN 29 ELSE 28)
                         ELSE IF mo \in {4, 6, 9, 11} THEN 30 ELSE 31)

\* the secondary numbers of all the dates that fall on day dd of a month
SecondaryByDay ==
    [dd \in 1..31 |->
        {life_path_for_date(e).secondary_energy : e \in {x \in Dates : x.day = dd}}]

IsLifePathCall == call.fn = "life_path_for_date"

IsReduceCall == call.fn = "reduce_number"

-----------------------------------------------------------------------------
(* The claims *)

\* C1: after any sequence of ready signals exactly one recurring trigger is
\* registered, so a dispatch of an 08:00 occurrence is the only dispatch of
\* that occurrence: an occurrence never has two or more.
C1_OneTriggerOneDispatch ==
    \A t1 \in TaskIds :
        IsSched(t1) =>
            /\ jobs = 1
            /\ \A t2 \in TaskIds :
                   (IsSched(t2) /\ tasks[t2].occ = tasks[t1].occ) => t2 = t1

\* C2: when digit_sum(year + month + day) is 11, 22 or 33, primary is that
\* value, not its reduction to a single digit.
C2_FirstSumMasterKept ==
    IsLifePathCall =>
        LET s == digit_sum(call.arg.year + call.arg.month + call.arg.day)
        IN  s \in MASTER_SET => call.ret.life_path_primary = s

C2_Witness ==
    /\ IsLifePathCall
    /\ digit_sum(call.arg.year + call.arg.month + call.arg.day) = 22
    /\ call.ret.life_path_primary = 22

\* C3: when a digit-sum pass after the first one is the first to yield 11, 22
\* or 33 (every pass before it was above 9), reduce_number returns that value.
C3_LaterPassMasterKept ==
    IsReduceCall =>
        \A k \in 2..MaxPasses :
            ( /\ \A j \in 1..(k - 1) :
                     Pass(call.arg, j) > 9 /\ Pass(call.arg, j) \notin MASTER_SET
              /\ Pass(call.arg, k) \in MASTER_SET )
            => call.ret = Pass(call.arg, k)

C3_Witness ==
    /\ IsReduceCall
    /\ Pass(call.arg, 1) = 29
    /\ Pass(call.arg, 2) = 11
    /\ call.ret = 11

\* C4: reduce_number(n) = n for every n in {11, 22, 33}, so a day of the month
\* that is a master number is the secondary energy of its date.
C4_MasterInputKept ==
    /\ (IsReduceCall /\ call.arg \in MASTER_SET) => call.ret = call.arg
    /\ (IsLifePathCall /\ call.arg.day \in MASTER_SET)
           => call.ret.secondary_energy = call.arg.day

\* C5: primary is a digit 1..9 or one of 11, 22, 33: never 0, never 10, never
\* another value above 9.
C5_PrimaryRange ==
    IsLifePathCall => call.ret.life_path_primary \in (1..9) \cup MASTER_SET

C5_Witness ==
    /\ IsLifePathCall
    /\ digit_sum(call.arg.year + call.arg.month + call.arg.day) = 10
    /\ call.ret.life_path_primary = 1

\* C6: digits_total is the sum of the eight digits of the zero-padded YYYYMMDD,
\* which is digit_sum(year) + digit_sum(month) + digit_sum(day), returned as
\* it is, with no reduction.
C6_DigitsTotalRaw ==
    IsLifePathCall =>
        /\ call.ret.digits_total = SumSeq(EightDigits(call.arg))
        /\ call.ret.digits_total =
               digit_sum(call.arg.year) + digit_sum(call.arg.month)
                   + digit_sum(call.arg.day)

C6_Witness ==
    /\ IsLifePathCall
    /\ call.arg.year < 1000
    /\ call.arg.month < 10
    /\ call.ret.digits_total > 9
    /\ call.ret.digits_total \notin MASTER_SET

\* C7: a calc request whose string is not a valid MM/DD/YYYY date (wrong
\* format, or month or day out of range) gets the usage reply, and neither calls
\* the Reducer nor sends a result message.  Here a string is taken as valid
\* also when its month or day is written with one digit.
C7_MalformedRejected ==
    \A t \in TaskIds :
        (tasks[t].kind = "calc" /\ ~DenotesDate(tasks[t].arg)) =>
            /\ tasks[t].reply = "usage"
            /\ tasks[t].pc = "done"
            /\ tasks[t].reduced = 0
            /\ tasks[t].delivered = 0
            /\ tasks[t].to = "none"

\* C8: an occurrence or today dispatch that finds no channel sends nothing and
\* is not run again, the trigger stays registered and goes on firing, and every
\* invocation that finds its channel sends the message of its own date, once.
C8_AbandonedThenUnaffected ==
    /\ \A t \in TaskIds :
           Abandoned(t) =>
               /\ tasks[t].pc \in {"confirm", "done"}
               /\ tasks[t].reduced = 0
               /\ tasks[t].delivered = 0
    /\ running => jobs >= 1
    /\ (fired /\ running /\ DateBefore(armed, today))
           => \E t \in TaskIds : IsSched(t) /\ tasks[t].occ = today
    /\ \A t \in TaskIds :
           tasks[t].to # "none" =>
               /\ tasks[t].msg = MessageOf[tasks[t].date]
               /\ tasks[t].reduced = 1
               /\ tasks[t].kind \in {"sched", "today"} => tasks[t].to = "target"
               /\ tasks[t].pc = "send" => tasks[t].delivered = 0
               /\ tasks[t].pc \in {"confirm", "done"} => tasks[t].delivered = 1

C8_Witness ==
    \E t1, t2 \in TaskIds :
        /\ t1 < t2
        /\ IsSched(t1) /\ Abandoned(t1) /\ tasks[t1].pc = "done"
        /\ IsSched(t2) /\ tasks[t2].occ # tasks[t1].occ
        /\ tasks[t2].pc = "done" /\ tasks[t2].delivered = 1

\* C9: 2025-08-21 gives primary 11, digits_total 20 and secondary energy 3;
\* 1999-09-09 gives primary 1.
C9_Examples ==
    /\ (IsLifePathCall /\ call.arg = MkDate(2025, 8, 21)) =>
           call.ret = [life_path_primary |-> 11, digits_total |-> 20,
                       secondary_energy |-> 3]
    /\ (IsLifePathCall /\ call.arg = MkDate(1999, 9, 9)) =>
           call.ret.life_path_primary = 1

C9_Witness == IsLifePathCall /\ call.arg = MkDate(2025, 8, 21)

\* C10: the date a scheduled fire hands to the Reducer is the date of the day
\* of that fire, also when that is a later day than the registration's.
C10_DateSampledAtFire ==
    \A t \in TaskIds :
        (IsSched(t) /\ tasks[t].date # NoDate) =>
            /\ tasks[t].date = tasks[t].occ
            /\ tasks[t].reduced = 1 => tasks[t].msg = MessageOf[tasks[t].occ]

C10_Witness ==
    \E t \in TaskIds :
        /\ IsSched(t)
        /\ tasks[t].reduced = 1
        /\ DateBefore(armed, tasks[t].date)

\* the setting names no channel: it is absent, or is no number, or is 0
NoChannelId ==
    \/ proc.channel_id = Unset
    \/ proc.channel_id = <<>>
    \/ \E i \in 1..Len(proc.channel_id) : ~IsDigit(proc.channel_id[i])
    \/ \A i \in 1..Len(proc.channel_id) : proc.channel_id[i] = "0"

\* C11: with TARGET_CHANNEL_ID unset, 0 or not a number the process does not
\* start: bot.run is never called, no trigger is registered, nothing is sent.
C11_RefusesToStart ==
    NoChannelId =>
        /\ ~Started
        /\ jobs = 0
        /\ armed = NoDate
        /\ tasks = <<>>

C11_Witness ==
    /\ proc.channel_id = <<"0", "0">>
    /\ proc.token = <<"t", "o", "k">>
    /\ proc.phase = "exit"

\* C12: secondary_energy depends on the day of the month alone: all the dates
\* with the day of the date called have its secondary_energy, whatever their
\* month and year, and it is reduce_number(day).
C12_SecondaryByDayAlone ==
    IsLifePathCall =>
        /\ SecondaryByDay[call.arg.day] = {call.ret.secondary_energy}
        /\ call.ret.secondary_energy = reduce_number(call.arg.day)

C12_Witness ==
    /\ IsLifePathCall
    /\ call.arg.day = 29
    /\ call.arg.month = 2
    /\ call.ret.secondary_energy = 11

\* C17: for every integer n, negative ones included, reduce_number(n) is one
\* of 0..9 or 11, 22, 33; it is 0 for n = 0 only, and never 10 or another
\* value above 9 that is not a master number.
C17_ReduceRange ==
    IsReduceCall =>
        /\ call.ret \in (0..9) \cup {11, 22, 33}
        /\ call.ret = 0 => call.arg = 0

C17_Witness ==
    /\ IsReduceCall
    /\ call.arg = 0 - 199
    /\ call.ret = 1

\* every unit of work that has not finished can take its next step now
Unblocked ==
    \A t \in TaskIds :
        /\ tasks[t].pc \in {"start", "typing"} => ENABLED post_for_today(t)
        /\ tasks[t].pc = "send" => ENABLED SendDone(t)
        /\ tasks[t].pc = "confirm" => ENABLED cmd_today_confirm(t)

\* a unit of work that found its channel and went past its send delivered the
\* message of its own date, once
DeliveredOwn ==
    \A t \in TaskIds :
        (tasks[t].to # "none" /\ tasks[t].pc \in {"confirm", "done"}) =>
            /\ tasks[t].delivered = 1
            /\ tasks[t].msg = MessageOf[tasks[t].date]
            /\ tasks[t].kind = "calc" => tasks[t].date = Parsed(tasks[t].arg)
            /\ tasks[t].kind # "calc" => tasks[t].date \in ClockDates

\* a step keeps every unit of work there is and changes at most one of them
StepAlone ==
    /\ Len(tasks') >= Len(tasks)
    /\ \A t, u \in TaskIds :
           (t # u /\ tasks'[t] # tasks[t]) => tasks'[u] = tasks[u]

\* C14: in every interleaving of scheduled fires with today and calc requests
\* each unit of work runs on its own: it can always take its next step, no step
\* of one touches another, and each one that found its channel delivers one
\* message, computed from its own date.
C14_Independent ==
    /\ [](Unblocked /\ DeliveredOwn)
    /\ [][StepAlone]_vars

C14_Witness ==
    \E t1, t2 \in TaskIds :
        /\ t1 < t2
        /\ IsSched(t1) /\ tasks[t1].pc = "send"
        /\ tasks[t2].kind = "calc" /\ tasks[t2].pc = "done"
        /\ tasks[t2].delivered = 1

\* C15: every result message, of a scheduled fire, of !today and of !calc, is
\* sent to the channel TARGET_CHANNEL_ID names and to no other channel.
C15_AllToTarget ==
    \A t \in TaskIds : tasks[t].to \in {"none", "target"}

\* C15, amended: the result of a scheduled fire and of !today is sent to the
\* channel TARGET_CHANNEL_ID names; the result of !calc is sent to the channel
\* the command was issued in, whichever that is.
C15_SinkByPath ==
    \A t \in TaskIds :
        /\ tasks[t].delivered > 0 => tasks[t].to # "none"
        /\ tasks[t].to # "none" =>
               /\ tasks[t].kind \in {"sched", "today"} => tasks[t].to = "target"
               /\ tasks[t].kind = "calc" => tasks[t].to = tasks[t].ctx

C15_Witness ==
    \E t1, t2 \in TaskIds :
        /\ tasks[t1].kind = "calc" /\ tasks[t1].ctx = "other"
        /\ tasks[t1].delivered = 1
        /\ tasks[t2].kind = "today" /\ tasks[t2].delivered = 1

\* C16: !today tells its caller "Posted today's Life Path above" only after
\* the message for today was delivered to the target channel; after a post
\* abandoned for want of the channel it does not.
C16_ConfirmAfterDelivery ==
    \A t \in TaskIds :
        tasks[t].reply = "posted" =>
            /\ tasks[t].to = "target"
            /\ tasks[t].delivered = 1

\* a pass of the loop is entered with s > 9 and leaves a smaller s
PassDecreases ==
    (At("L37") /\ call' # call) =>
        /\ call.s > 9
        /\ call'.s < call.s
        /\ call'.s >= 0

\* C18: reduce_number terminates for every integer: each pass of the loop
\* replaces an s > 9 by the smaller digit_sum(s), and every run that has begun
\* reaches a return, with the value reduce_number has for its input.
C18_Terminates ==
    /\ [][PassDecreases]_vars
    /\ [](At("returned") => call.s = reduce_number(call.arg))
    /\ InFrame ~> At("returned")

C18_Witness ==
    /\ At("returned")
    /\ call.arg = 1999
    /\ call.s = 1

=============================================================================
